---- MODULE Spec2Model ----
(***************************************************************************)
(* Model of production_clicker's ResourceManager                           *)
(* (src/production/resource.rs): the resource catalog, the list of         *)
(* processed transformers and the derivation performed by add_resource     *)
(* and add_processed_transformer; and of the recipe patterns resolved      *)
(* against it (src/processing/recipe.rs) by the RecipeLoader               *)
(* (src/processing/recipe_loader.rs).                                      *)
(*                                                                         *)
(* A Resource is modelled by the fields the manager reads or writes: id,   *)
(* name and tags (a Vec, kept as a sequence).  description, base_icon and  *)
(* the two colours are carried along untouched by every operation.         *)
(***************************************************************************)
EXTENDS Integers, Sequences, FiniteSets, TLC

VARIABLES
    resources,                  \* ResourceManager.resources: HashMap<u64, Resource>
    processed_transformations,  \* ResourceManager.processed_transformations: Vec<closure>
    resources_created,          \* ResourceManager.resources_created: u64
    last,                       \* the call the caller made last and the Result it got back
    stack,                      \* call frames of a call in progress (step-wise specification)
    twin,                       \* a second manager fed the same calls (two-run specification)
    query,                      \* the Vec<&Resource> the last resources_with_tags call returned
    loader                      \* the RecipeLoader borrowing the manager, and its last load

vars == <<resources, processed_transformations, resources_created, last, stack, twin,
          query, loader>>

(***************************************************************************)
(* Bounds                                                                  *)
(***************************************************************************)
MaxTransformers == 2    \* registrations attempted on a list shorter than this
MaxCreated == 16        \* cap on resources_created in the step-wise specification
MaxTwinCreated == 3     \* the two-run specification makes calls while resources_created is below this
MaxLoadCreated == 2     \* the loader specification adds resources while resources_created is below this
MaxNewRecipes == 3      \* longest list of (key, recipe) pairs handed to created_recipes.extend

(***************************************************************************)
(* Resources and tags                                                      *)
(***************************************************************************)
ResourceTag == {"Base", "Metal", "Ore", "Ingot"}

\* Resource::new: the id is 0 until the manager assigns one.
ResourceNew(name, tags) == [id |-> 0, name |-> name, tags |-> tags]

contains_tag(res, tag) == \E i \in DOMAIN res.tags : res.tags[i] = tag

\* Mutant: one of the tags is enough.
contains_all_tags_Any(res, tags) == \E i \in DOMAIN tags : contains_tag(res, tags[i])

contains_all_tags(res, tags) == \A i \in DOMAIN tags : contains_tag(res, tags[i])

None == [some |-> FALSE]
Some(v) == [some |-> TRUE, val |-> v]

(***************************************************************************)
(* Transformers.  A transformer is a closure Fn(&Resource) ->              *)
(* Option<Resource>; the ones below have the shape of the closures of      *)
(* setup_resource_manager: a tag guard, a derived name and fixed tags.     *)
(*   kind "suffix": name = format!("{}<text>", resource.name())            *)
(*   kind "const" : name = <text>                                          *)
(***************************************************************************)
IngotTransformer ==
    [guard |-> <<"Base", "Metal">>, kind |-> "suffix", text |-> " Ingot",
     tags |-> <<"Metal", "Ingot">>]

PlateTransformer ==
    [guard |-> <<"Base", "Metal">>, kind |-> "suffix", text |-> " Plate",
     tags |-> <<"Metal">>]

\* A caller-supplied closure that is not in setup_resource_manager: every
\* ingot scraps to the one resource "Scrap", itself a base metal.  With
\* IngotTransformer it forms a cycle of names: Scrap -> Scrap Ingot -> Scrap.
ScrapTransformer ==
    [guard |-> <<"Ingot">>, kind |-> "const", text |-> "Scrap",
     tags |-> <<"Metal", "Base">>]

Transformers == {IngotTransformer, PlateTransformer, ScrapTransformer}

\* transformer(resource)
Apply(transformer, resource) ==
    IF contains_all_tags(resource, transformer.guard)
    THEN Some(ResourceNew(IF transformer.kind = "suffix"
                          THEN resource.name \o transformer.text
                          ELSE transformer.text,
                          transformer.tags))
    ELSE None

\* The resources a caller hands to add_resource.
Candidates ==
    { ResourceNew("Iron", <<"Metal", "Base">>),
      ResourceNew("Copper", <<"Metal", "Base">>),
      ResourceNew("Iron Ingot", <<"Ingot">>) }

(***************************************************************************)
(* ResourceManager, as a value: [resources, processed_transformations,     *)
(* resources_created]                                                      *)
(***************************************************************************)
ManagerNew ==
    [resources |-> <<>>, processed_transformations |-> <<>>, resources_created |-> 0]

Values(m) == {m.resources[k] : k \in DOMAIN m.resources}

\* resources.values().find(|res| res.name() == name): the resources find may
\* return (the first match in the map's iteration order).
resource_by_name(m, name) == {res \in Values(m) : res.name = name}

\* resources.values().find(|res| res.id == id)
resource_by_id(m, id) == {res \in Values(m) : res.id = id}

\* Result<u64, String> and Result<(), String>: val is the u64 of an Ok (0 for
\* the unit value), err the String of an Err.
Ok(v) == [ok |-> TRUE, val |-> v, err |-> ""]
OkUnit == Ok(0)
Err == [ok |-> FALSE, val |-> 0, err |-> "Resource already exists"]

\* Mutant: the test compares the whole candidate (name and tags), not the name.
NameTaken_SameResource(m, resource) ==
    \E res \in Values(m) : res.name = resource.name /\ res.tags = resource.tags

\* add_resource, line 128: the duplicate-name test.
NameTaken(m, resource) == resource_by_name(m, resource.name) # {}

\* Mutant: the id counter is not advanced.
Insert_NoIncrement(m, resource) ==
    LET resource_id == m.resources_created
    IN [m EXCEPT !.resources = (resource_id :> [resource EXCEPT !.id = resource_id]) @@ @]

\* Mutant: the map is rebuilt from the inserted resource alone.
Insert_Replace(m, resource) ==
    LET resource_id == m.resources_created
    IN [m EXCEPT !.resources_created = resource_id + 1,
                 !.resources = (resource_id :> [resource EXCEPT !.id = resource_id])]

\* add_resource, lines 131-134: assign the id and insert.
Insert(m, resource) ==
    LET resource_id == m.resources_created
    IN [m EXCEPT !.resources_created = resource_id + 1,
                 !.resources = (resource_id :> [resource EXCEPT !.id = resource_id]) @@ @]

\* SelectSome: the Some values of a sequence of options, in order.
RECURSIVE SelectSome(_)
SelectSome(opts) ==
    IF opts = <<>> THEN <<>>
    ELSE (IF Head(opts).some THEN <<Head(opts).val>> ELSE <<>>) \o SelectSome(Tail(opts))

\* add_resource, lines 135-141: to_add, one entry per registered transformer
\* that yields a resource, in registration order.
Derived(m, resource_id) ==
    SelectSome([i \in 1..Len(m.processed_transformations) |->
                    Apply(m.processed_transformations[i], m.resources[resource_id])])

\* add_resource and the loop `for resource in to_add { self.add_resource(resource)?; }`
RECURSIVE add_resource(_, _), add_all(_, _)

\* Mutant: the id counter is advanced before the duplicate-name test.
add_resource_CountFirst(m, resource) ==
    IF NameTaken(m, resource)
    THEN [m |-> [m EXCEPT !.resources_created = @ + 1], ret |-> Err]
    ELSE LET m1 == Insert(m, resource)
             resource_id == m.resources_created
             r == add_all(m1, Derived(m1, resource_id))
         IN IF r.ret.ok THEN [m |-> r.m, ret |-> Ok(resource_id)] ELSE r

add_resource(m, resource) ==
    IF NameTaken(m, resource) THEN [m |-> m, ret |-> Err]
    ELSE LET m1 == Insert(m, resource)
             resource_id == m.resources_created
             r == add_all(m1, Derived(m1, resource_id))
         IN IF r.ret.ok THEN [m |-> r.m, ret |-> Ok(resource_id)] ELSE r

add_all(m, to_add) ==
    IF to_add = <<>> THEN [m |-> m, ret |-> OkUnit]
    ELSE LET r == add_resource(m, Head(to_add))
         IN IF r.ret.ok THEN add_all(r.m, Tail(to_add)) ELSE r

\* The orders in which resources.values() can visit the resources a transformer
\* accepts.  HashMap iteration order is unspecified; only the relative order of
\* the accepted resources reaches to_add.
Accepted(m, transformer) ==
    {k \in DOMAIN m.resources : Apply(transformer, m.resources[k]).some}

Orders(S) ==
    {s \in [1..Cardinality(S) -> S] : \A i, j \in DOMAIN s : i # j => s[i] # s[j]}

\* Mutant: only the first accepted resource is transformed.
Collected_FirstOnly(m, transformer, order) ==
    [i \in 1..(IF Len(order) > 0 THEN 1 ELSE 0) |->
        Apply(transformer, m.resources[order[i]]).val]

\* add_processed_transformer, lines 114-119
Collected(m, transformer, order) ==
    [i \in 1..Len(order) |-> Apply(transformer, m.resources[order[i]]).val]

\* add_processed_transformer
add_processed_transformer(m, transformer, order) ==
    LET r == add_all(m, Collected(m, transformer, order))
    IN IF r.ret.ok
       THEN [m |-> [r.m EXCEPT !.processed_transformations = Append(@, transformer)],
             ret |-> OkUnit]
       ELSE r

(***************************************************************************)
(* The manager held in the variables                                       *)
(***************************************************************************)
Manager ==
    [resources |-> resources,
     processed_transformations |-> processed_transformations,
     resources_created |-> resources_created]

SetManager(m) ==
    /\ resources' = m.resources
    /\ processed_transformations' = m.processed_transformations
    /\ resources_created' = m.resources_created

(***************************************************************************)
(* Recipe patterns (src/processing/recipe.rs).  A selector is a            *)
(* serde_json::Value; the fields below are what into_recipes looks at:     *)
(*   kind      "String", "Object" or "Other" (number, array, bool, null)   *)
(*   name      the string of a Value::String                               *)
(*   has_tags  dict.contains_key("tags")                                   *)
(*   is_array  dict["tags"] is a Value::Array                              *)
(*   tags      the items of that array                                     *)
(***************************************************************************)
TagItem(s) == [is_str |-> TRUE, str |-> s]
TagNumber == [is_str |-> FALSE, str |-> ""]

ValueString(name) ==
    [kind |-> "String", name |-> name, has_tags |-> FALSE, is_array |-> FALSE, tags |-> <<>>]
ValueTagItems(items) ==
    [kind |-> "Object", name |-> "", has_tags |-> TRUE, is_array |-> TRUE, tags |-> items]
ValueTags(strs) == ValueTagItems([i \in DOMAIN strs |-> TagItem(strs[i])])
ValueObject ==
    [kind |-> "Object", name |-> "", has_tags |-> FALSE, is_array |-> FALSE, tags |-> <<>>]
ValueTagsOther ==
    [kind |-> "Object", name |-> "", has_tags |-> TRUE, is_array |-> FALSE, tags |-> <<>>]
ValueNumber ==
    [kind |-> "Other", name |-> "", has_tags |-> FALSE, is_array |-> FALSE, tags |-> <<>>]

\* RecipePatternComponent and RecipePattern
RecipePatternComponent(value) == [resource |-> value, quantity |-> 1]

RecipePattern(input, output) ==
    [input |-> [i \in DOMAIN input |-> RecipePatternComponent(input[i])],
     output |-> [i \in DOMAIN output |-> RecipePatternComponent(output[i])],
     base_time |-> 1, requirements |-> <<>>]

\* What a selector resolves to: the manager, the Vec<&Resource> and the message
\* of the panic that ended the resolution ("" when it did not panic).
Resolved(m, found) == [m |-> m, resources |-> found, panic |-> ""]
Panic(m, msg) == [m |-> m, resources |-> <<>>, panic |-> msg]

\* Line 80: the tag string is put between quotes and parsed as a ResourceTag; it
\* parses iff it is the name of a variant.
ParseTag(item) == IF item.str \in ResourceTag THEN Some(item.str) ELSE None

\* Mutant: a name that is not in the catalog is added to it.
Resolve_Creating(m, value, order) ==
    IF value.kind = "String" /\ resource_by_name(m, value.name) = {}
    THEN Resolved(Insert(m, ResourceNew(value.name, <<>>)), <<>>)
    ELSE Resolved(m, SelectSeq(order, LAMBDA res : res.name = value.name))

\* into_recipes, lines 68-96: one selector against the manager, whose map is
\* iterated in `order`.
Resolve(m, value, order) ==
    IF value.kind = "String"
    THEN LET found == SelectSeq(order, LAMBDA res : res.name = value.name)
         IN IF resource_by_name(m, value.name) = {}
            THEN Panic(m, "No resource with name " \o value.name)
            ELSE Resolved(m, <<Head(found)>>)
    ELSE IF value.kind = "Object"
    THEN IF ~value.has_tags
         THEN Resolved(m, order)
         ELSE IF ~value.is_array
         THEN Panic(m, "Invalid entry for tags")
         ELSE LET bad == {i \in DOMAIN value.tags :
                            ~value.tags[i].is_str \/ ~ParseTag(value.tags[i]).some}
                  first == CHOOSE i \in bad : \A j \in bad : i <= j
                  tags == [i \in DOMAIN value.tags |-> ParseTag(value.tags[i]).val]
              IN IF bad # {}
                 THEN IF ~value.tags[first].is_str
                      THEN Panic(m, "Tag must string")
                      ELSE Panic(m, "called Result::unwrap() on an Err value")
                 ELSE Resolved(m, SelectSeq(order, LAMBDA res : contains_all_tags(res, tags)))
    ELSE Panic(m, "Invalid resource")

\* into_recipes, lines 65-98: the input selectors are resolved in order, up to
\* the first panic.  r is what the first selector resolved to.
RECURSIVE resolve_inputs(_, _, _), resolve_rest(_, _, _)
resolve_inputs(m, input, order) ==
    IF input = <<>>
    THEN [m |-> m, inputs_raw |-> <<>>, panic |-> ""]
    ELSE resolve_rest(Resolve(m, Head(input).resource, order), Tail(input), order)

Unresolved(r) == [m |-> r.m, inputs_raw |-> <<>>, panic |-> r.panic]

Prepend(r, rest) ==
    [m |-> rest.m, inputs_raw |-> <<r.resources>> \o rest.inputs_raw, panic |-> rest.panic]

resolve_rest(r, input, order) ==
    IF r.panic # ""
    THEN Unresolved(r)
    ELSE Prepend(r, resolve_inputs(r.m, input, order))

\* Lines 100-102: after the inputs are resolved the body is todo!(), which
\* panics: the call never returns a Vec<Recipe>, and it never looks at
\* self.output.
Todo(r) ==
    [m |-> r.m, inputs_raw |-> r.inputs_raw, returned |-> FALSE, recipes |-> <<>>,
     panic |-> IF r.panic # "" THEN r.panic ELSE "not yet implemented"]

\* RecipePattern::into_recipes
into_recipes(m, pattern, order) == Todo(resolve_inputs(m, pattern.input, order))

(***************************************************************************)
(* RecipeLoader (src/processing/recipe_loader.rs)                          *)
(*   created_recipes  HashMap<String, Recipe>: one Recipe for a key        *)
(*   ret, panic       how the last load_recipes ended                      *)
(*   key, expanding   the pattern whose into_recipes call was made last    *)
(*   inputs_raw       the selectors that call resolved                     *)
(*   new_recipes      the (key, recipe) pairs collected at lines 32-40     *)
(***************************************************************************)
NoPattern == RecipePattern(<<>>, <<>>)

NotLoaded == [ok |-> FALSE, val |-> 0, err |-> "not loaded"]
ErrOpen == [ok |-> FALSE, val |-> 0, err |-> "No such file or directory"]
ErrParse == [ok |-> FALSE, val |-> 0, err |-> "invalid JSON for HashMap<String, RecipePattern>"]

RecipeLoaderNew ==
    [exists |-> TRUE, created_recipes |-> <<>>, ret |-> NotLoaded, panic |-> "",
     key |-> "", expanding |-> NoPattern, inputs_raw |-> <<>>, new_recipes |-> <<>>]

NoLoader == [RecipeLoaderNew EXCEPT !.exists = FALSE]

\* The document at file_path: it cannot be opened, it does not parse into a
\* HashMap<String, RecipePattern>, or it does.
Unreadable == [kind |-> "unreadable", recipes |-> {}]
Malformed == [kind |-> "malformed", recipes |-> {}]
Parsed(recipes) == [kind |-> "parsed", recipes |-> recipes]

\* HashMap::extend, line 41: the pairs are inserted in order, a later pair
\* replacing the recipe an earlier one stored under the same key.
RECURSIVE Extend(_, _)
Extend(created_recipes, new_recipes) ==
    IF new_recipes = <<>>
    THEN created_recipes
    ELSE Extend((Head(new_recipes).key :> Head(new_recipes).recipe) @@ created_recipes,
                Tail(new_recipes))

\* Lines 32-40: the patterns are expanded in the iteration order of the parsed
\* map; the first into_recipes call that panics ends the process.  r is what
\* into_recipes made of the entry e.
RECURSIVE collect(_, _, _), collect_rest(_, _, _, _)
collect(m, entries, order) ==
    IF entries = <<>>
    THEN [m |-> m, new_recipes |-> <<>>, panic |-> "", key |-> "",
          expanding |-> NoPattern, inputs_raw |-> <<>>]
    ELSE collect_rest(Head(entries), into_recipes(m, Head(entries).pattern, order),
                      Tail(entries), order)

Aborted(e, r) ==
    [m |-> r.m, new_recipes |-> <<>>, panic |-> r.panic, key |-> e.key,
     expanding |-> e.pattern, inputs_raw |-> r.inputs_raw]

\* Lines 36-38: the recipes of a pattern, each paired with the pattern's key.
Keyed(e, r, rest) ==
    [rest EXCEPT !.new_recipes =
        [i \in DOMAIN r.recipes |-> [key |-> e.key, recipe |-> r.recipes[i]]] \o @]

collect_rest(e, r, entries, order) ==
    IF ~r.returned
    THEN Aborted(e, r)
    ELSE Keyed(e, r, collect(r.m, entries, order))

\* Lines 41-42, c being what lines 32-40 collected.
Loaded(ld, c) ==
    [m |-> c.m,
     loader |-> [ld EXCEPT !.key = c.key, !.expanding = c.expanding,
                           !.inputs_raw = c.inputs_raw,
                           !.new_recipes = c.new_recipes,
                           !.panic = c.panic,
                           !.ret = IF c.panic = "" THEN OkUnit ELSE NotLoaded,
                           !.created_recipes =
                                IF c.panic = "" THEN Extend(@, c.new_recipes) ELSE @]]

\* RecipeLoader::load_recipes on the document doc, whose parsed map is iterated
\* in the order `entries`.
load_recipes(ld, m, doc, entries, order) ==
    IF doc.kind = "unreadable"
    THEN [m |-> m, loader |-> [ld EXCEPT !.ret = ErrOpen]]
    ELSE IF doc.kind = "malformed"
    THEN [m |-> m, loader |-> [ld EXCEPT !.ret = ErrParse]]
    ELSE Loaded(ld, collect(m, entries, order))

\* resources_with_tags, lines 188-192, the map iterated in `order`.
resources_with_tags(m, tags, order) ==
    SelectSeq(order, LAMBDA res : contains_all_tags(res, tags))

NoQuery == [done |-> FALSE, tags |-> <<>>, result |-> <<>>]

NoCall == [op |-> "new", arg |-> ResourceNew("", <<>>), ret |-> OkUnit]

Init ==
    /\ resources = ManagerNew.resources
    /\ processed_transformations = ManagerNew.processed_transformations
    /\ resources_created = ManagerNew.resources_created
    /\ last = NoCall
    /\ stack = <<>>
    /\ twin = ManagerNew
    /\ query = NoQuery
    /\ loader = NoLoader

(***************************************************************************)
(* Spec: each call is one action.                                          *)
(***************************************************************************)
CallAddResource(resource) ==
    LET r == add_resource(Manager, resource)
    IN /\ SetManager(r.m)
       /\ last' = [op |-> "add_resource", arg |-> resource, ret |-> r.ret]

CallAddProcessedTransformer(transformer, order) ==
    LET r == add_processed_transformer(Manager, transformer, order)
    IN /\ Len(processed_transformations) < MaxTransformers
       /\ SetManager(r.m)
       /\ last' = [op |-> "add_processed_transformer", arg |-> transformer, ret |-> r.ret]

AddResource ==
    \E resource \in Candidates :
        CallAddResource(resource) /\ UNCHANGED <<stack, twin, query, loader>>

AddProcessedTransformer ==
    \E transformer \in Transformers :
        \E order \in Orders(Accepted(Manager, transformer)) :
            CallAddProcessedTransformer(transformer, order) /\ UNCHANGED <<stack, twin, query, loader>>

Next == AddResource \/ AddProcessedTransformer

Spec == Init /\ [][Next]_vars

(***************************************************************************)
(* SpecRun: the same two calls, one insertion per step.  A frame is a call *)
(* that has built its to_add list and is in its `for resource in to_add`   *)
(* loop; the top frame is the call that is executing.                      *)
(***************************************************************************)
Pending == [ok |-> FALSE, val |-> 0, err |-> "pending"]

Running == stack # <<>>

Top == stack[Len(stack)]

\* Mutant: a derived resource is inserted without the duplicate-name test.
Enter_NoCheck(callers, resource) ==
    LET m1 == Insert(Manager, resource)
        resource_id == resources_created
    IN /\ SetManager(m1)
       /\ stack' = Append(callers, [fn |-> "add_resource",
                                    resource_id |-> resource_id,
                                    to_add |-> Derived(m1, resource_id)])
       /\ UNCHANGED last

\* A call of add_resource(resource) made with `callers` as the frames below it:
\* lines 128-141.  An Err is passed up by the `?` of every caller.
Enter(callers, resource) ==
    IF NameTaken(Manager, resource)
    THEN /\ stack' = <<>>
         /\ last' = [last EXCEPT !.ret = Err]
         /\ UNCHANGED <<resources, processed_transformations, resources_created>>
    ELSE LET m1 == Insert(Manager, resource)
             resource_id == resources_created
         IN /\ SetManager(m1)
            /\ stack' = Append(callers, [fn |-> "add_resource",
                                         resource_id |-> resource_id,
                                         to_add |-> Derived(m1, resource_id)])
            /\ UNCHANGED last

\* The caller's own call of add_resource(resource): lines 128-141.
RunCall(resource) ==
    IF NameTaken(Manager, resource)
    THEN /\ last' = [op |-> "add_resource", arg |-> resource, ret |-> Err]
         /\ UNCHANGED <<resources, processed_transformations, resources_created, stack>>
    ELSE LET m1 == Insert(Manager, resource)
             resource_id == resources_created
         IN /\ SetManager(m1)
            /\ stack' = <<[fn |-> "add_resource", resource_id |-> resource_id,
                           to_add |-> Derived(m1, resource_id)]>>
            /\ last' = [op |-> "add_resource", arg |-> resource, ret |-> Pending]

\* The caller calls add_resource.
RunAddResource ==
    /\ ~Running
    /\ resources_created < MaxCreated
    /\ \E resource \in Candidates : RunCall(resource)
    /\ UNCHANGED <<twin, query, loader>>

\* The caller calls add_processed_transformer: lines 114-119.
RunAddProcessedTransformer ==
    /\ ~Running
    /\ Len(processed_transformations) < MaxTransformers
    /\ \E transformer \in Transformers :
        \E order \in Orders(Accepted(Manager, transformer)) :
            /\ stack' = <<[fn |-> "add_processed_transformer", transformer |-> transformer,
                           to_add |-> Collected(Manager, transformer, order)]>>
            /\ last' = [op |-> "add_processed_transformer", arg |-> transformer,
                        ret |-> Pending]
    /\ UNCHANGED <<resources, processed_transformations, resources_created, twin, query, loader>>

\* Lines 120-122 and 142-144: the executing call takes the next resource of its
\* to_add and calls add_resource with it.
RunNested ==
    /\ Running
    /\ Top.to_add # <<>>
    /\ resources_created < MaxCreated
    /\ Enter([stack EXCEPT ![Len(stack)].to_add = Tail(@)], Head(Top.to_add))
    /\ UNCHANGED <<twin, query, loader>>

\* Lines 123-124 and 145: the executing call has emptied its to_add and returns Ok.
RunReturn ==
    /\ Running
    /\ Top.to_add = <<>>
    /\ stack' = SubSeq(stack, 1, Len(stack) - 1)
    /\ IF Top.fn = "add_processed_transformer"
       THEN /\ processed_transformations' = Append(processed_transformations, Top.transformer)
            /\ last' = [last EXCEPT !.ret = OkUnit]
       ELSE /\ UNCHANGED processed_transformations
            /\ last' = IF Len(stack) = 1 THEN [last EXCEPT !.ret = Ok(Top.resource_id)]
                       ELSE last
    /\ UNCHANGED <<resources, resources_created, twin, query, loader>>

RunStep == RunNested \/ RunReturn

NextRun == RunAddResource \/ RunAddProcessedTransformer \/ RunNested \/ RunReturn

SpecRun == Init /\ [][NextRun]_vars

\* The calls are synchronous code: a call in progress keeps executing.
FairRun == SpecRun /\ WF_vars(RunStep)

(***************************************************************************)
(* SpecOrder: the step-wise calls on a catalog of alloys, where a resource  *)
(* has several direct derivations and one of them has derivations of its    *)
(* own.                                                                     *)
(***************************************************************************)
OrderCandidates ==
    { ResourceNew("Steel", <<"Metal", "Base", "Ingot">>),
      ResourceNew("Iron", <<"Metal", "Base">>) }

OrderAddResource ==
    /\ ~Running
    /\ resources_created < MaxCreated
    /\ \E resource \in OrderCandidates : RunCall(resource)
    /\ UNCHANGED <<twin, query, loader>>

NextOrder == OrderAddResource \/ RunAddProcessedTransformer \/ RunNested \/ RunReturn

SpecOrder == Init /\ [][NextOrder]_vars

(***************************************************************************)
(* SpecSetup: the caller registers every transformer on the empty manager  *)
(* and only then adds resources.                                           *)
(***************************************************************************)
SetupAddProcessedTransformer ==
    /\ resources_created = 0
    /\ AddProcessedTransformer

SetupAddResource == AddResource

NextSetup == SetupAddProcessedTransformer \/ SetupAddResource

SpecSetup == Init /\ [][NextSetup]_vars

(***************************************************************************)
(* SpecTwin: two managers receive the same calls; each iterates its own    *)
(* HashMap in its own order.                                               *)
(***************************************************************************)
TwinAddResource ==
    \E resource \in Candidates :
        /\ resources_created < MaxTwinCreated
        /\ CallAddResource(resource)
        /\ twin' = add_resource(twin, resource).m
        /\ UNCHANGED <<stack, query, loader>>

TwinAddProcessedTransformer ==
    \E transformer \in Transformers :
        \E order \in Orders(Accepted(Manager, transformer)) :
            \E twin_order \in Orders(Accepted(twin, transformer)) :
                /\ resources_created < MaxTwinCreated
                /\ CallAddProcessedTransformer(transformer, order)
                /\ twin' = add_processed_transformer(twin, transformer, twin_order).m
                /\ UNCHANGED <<stack, query, loader>>

NextTwin == TwinAddResource \/ TwinAddProcessedTransformer

SpecTwin == Init /\ [][NextTwin]_vars

(***************************************************************************)
(* SpecLoad: the caller builds a catalog, queries it by tags, then creates *)
(* a RecipeLoader on it and loads documents.  The Vec a query returned and *)
(* the loader borrow the manager, so a call that changes the manager is    *)
(* made only after the former is dropped and before the latter exists.  A  *)
(* panic ends the process.                                                 *)
(***************************************************************************)
LoadCandidates ==
    { ResourceNew("Iron", <<"Metal", "Base">>),
      ResourceNew("Brass", <<"Metal", "Metal">>),
      ResourceNew("Wood", <<>>) }

LoadTransformers == {IngotTransformer, PlateTransformer}

QueryTags ==
    { <<>>, <<"Metal">>, <<"Metal", "Metal">>, <<"Base", "Metal">>, <<"Ore">> }

\* The input selectors of the patterns a document holds.
Inputs ==
    { <<ValueString("Iron")>>,
      <<ValueString("Tin")>>,
      <<ValueTags(<<"Metal">>)>>,
      <<ValueTags(<<"Metal", "Metal">>)>>,
      <<ValueTags(<<"Ore">>)>>,
      <<ValueTags(<<>>)>>,
      <<ValueObject>>,
      <<ValueTagsOther>>,
      <<ValueTags(<<"Shiny">>)>>,
      <<ValueTagItems(<<TagItem("Metal"), TagNumber>>)>>,
      <<ValueNumber>>,
      <<ValueTags(<<"Metal">>), ValueString("Tin")>> }

Patterns == {RecipePattern(input, <<ValueTags(<<"Ingot">>)>>) : input \in Inputs}

Documents ==
    {Unreadable, Malformed, Parsed({})}
        \cup {Parsed({[key |-> "smelt", pattern |-> p]}) : p \in Patterns}
        \cup {Parsed({[key |-> "smelt",
                       pattern |-> RecipePattern(<<ValueTags(<<"Ore">>)>>,
                                                 <<ValueTags(<<"Ingot">>)>>)],
                      [key |-> "roll",
                       pattern |-> RecipePattern(<<ValueString("Tin")>>,
                                                 <<ValueTags(<<"Ingot">>)>>)]})}

Panicked == loader.panic # ""

LoadAddResource ==
    /\ ~loader.exists
    /\ resources_created < MaxLoadCreated
    /\ \E resource \in LoadCandidates : CallAddResource(resource)
    /\ query' = NoQuery
    /\ UNCHANGED <<stack, twin, loader>>

LoadAddProcessedTransformer ==
    /\ ~loader.exists
    /\ \E transformer \in LoadTransformers :
        \E order \in Orders(Accepted(Manager, transformer)) :
            CallAddProcessedTransformer(transformer, order)
    /\ query' = NoQuery
    /\ UNCHANGED <<stack, twin, loader>>

QueryResourcesWithTags ==
    /\ ~loader.exists
    /\ \E order \in Orders(Values(Manager)) :
        \E tags \in QueryTags :
            query' = [done |-> TRUE, tags |-> tags,
                      result |-> resources_with_tags(Manager, tags, order)]
    /\ UNCHANGED <<resources, processed_transformations, resources_created, last,
                   stack, twin, loader>>

\* RecipeLoader::new, lines 18-24.
NewLoader ==
    /\ ~loader.exists
    /\ loader' = RecipeLoaderNew
    /\ query' = NoQuery
    /\ UNCHANGED <<resources, processed_transformations, resources_created, last,
                   stack, twin>>

\* The state after a load that ended as r.
Load(r) ==
    /\ SetManager(r.m)
    /\ loader' = r.loader

LoadRecipes ==
    /\ loader.exists
    /\ ~Panicked
    /\ \E order \in Orders(Values(Manager)) :
        \E doc \in Documents :
            \E entries \in Orders(doc.recipes) :
                Load(load_recipes(loader, Manager, doc, entries, order))
    /\ UNCHANGED <<last, stack, twin, query>>

NextLoad ==
    \/ LoadAddResource
    \/ LoadAddProcessedTransformer
    \/ QueryResourcesWithTags
    \/ NewLoader
    \/ LoadRecipes

SpecLoad == Init /\ [][NextLoad]_vars

(***************************************************************************)
(* SpecExtend: lines 41-42 of load_recipes on every list of (key, recipe)  *)
(* pairs of a bounded length.                                              *)
(***************************************************************************)
RecipeComponent(resource_id, quantity) ==
    [resource_id |-> resource_id, quantity |-> quantity]

Recipe(inputs, outputs, base_time, requirements) ==
    [inputs |-> inputs, outputs |-> outputs, base_time |-> base_time,
     requirements |-> requirements]

SomeRecipes ==
    {Recipe(<<RecipeComponent(0, 1)>>, <<RecipeComponent(k, 1)>>, 1, <<>>) : k \in {1, 2}}

Keys == {"smelt", "roll"}

NewRecipeLists ==
    UNION {[1..n -> [key : Keys, recipe : SomeRecipes]] : n \in 0..MaxNewRecipes}

InitExtend ==
    /\ resources = ManagerNew.resources
    /\ processed_transformations = ManagerNew.processed_transformations
    /\ resources_created = ManagerNew.resources_created
    /\ last = NoCall
    /\ stack = <<>>
    /\ twin = ManagerNew
    /\ query = NoQuery
    /\ loader \in {[RecipeLoaderNew EXCEPT !.new_recipes = l] : l \in NewRecipeLists}

ExtendCreatedRecipes ==
    /\ loader.ret = NotLoaded
    /\ loader' = [loader EXCEPT !.created_recipes = Extend(@, loader.new_recipes),
                                !.ret = OkUnit]
    /\ UNCHANGED <<resources, processed_transformations, resources_created, last,
                   stack, twin, query>>

NextExtend == ExtendCreatedRecipes

SpecExtend == InitExtend /\ [][NextExtend]_vars

(***************************************************************************)
(* Properties                                                              *)
(***************************************************************************)
TypeOK ==
    /\ resources_created \in Nat
    /\ DOMAIN resources \subseteq 0..(resources_created - 1)
    /\ Len(processed_transformations) <= MaxTransformers

HasName(m, name) == \E k \in DOMAIN m.resources : m.resources[k].name = name

\* No registered transformer, applied to a stored resource, yields a name that
\* is not stored.
Closed(m) ==
    \A i \in DOMAIN m.processed_transformations : \A res \in Values(m) :
        LET d == Apply(m.processed_transformations[i], res)
        IN d.some => HasName(m, d.val.name)

\* C1: after every add_resource and add_processed_transformer call the catalog
\* is closed under the registered transformers.
C1_ClosedAfterEveryCall == Closed(Manager)

\* C2: no two stored resources have the same name, in any state, also while a
\* call is inserting derived resources.
C2_UniqueNames ==
    \A k1, k2 \in DOMAIN resources :
        resources[k1].name = resources[k2].name => k1 = k2

\* A failed call has gone by, with a base resource and a derived one stored.
C2_Witness ==
    /\ ~Running
    /\ last.ret = Err
    /\ HasName(Manager, "Iron")
    /\ HasName(Manager, "Iron Ingot")
    /\ HasName(Manager, "Iron Plate")

\* C3: a derived resource whose name is already stored is no error: an
\* add_processed_transformer call returns Ok, and so does an add_resource call
\* whose own candidate's name was free.
C3_DerivedCollisionIsNoError ==
    [][ /\ last'.op = "add_processed_transformer" => last'.ret.ok
        /\ (last'.op = "add_resource" /\ ~HasName(Manager, last'.arg.name))
               => last'.ret.ok ]_vars

\* C4: add_resource of a candidate whose name is stored returns the
\* duplicate-name error and leaves resources and the id counter as they were.
C4_DuplicateRejected ==
    [][ (last'.op = "add_resource" /\ HasName(Manager, last'.arg.name))
            => /\ last'.ret = Err
               /\ resources' = resources
               /\ resources_created' = resources_created
               /\ processed_transformations' = processed_transformations ]_vars

\* A direct add_resource has failed where no transformer is registered, so the
\* failure is the candidate's own name.
C4_Witness ==
    /\ last.op = "add_resource"
    /\ last.ret = Err
    /\ processed_transformations = <<>>
    /\ HasName(Manager, last.arg.name)

\* C5: when add_processed_transformer returns Ok, every resource stored before
\* the call that the transformer accepts has its derived name stored after it.
C5_RetroactiveDerivation ==
    [][ (last'.op = "add_processed_transformer" /\ last'.ret.ok)
            => \A k \in DOMAIN resources :
                   LET d == Apply(last'.arg, resources[k])
                   IN d.some => resource_by_name([resources |-> resources'], d.val.name) # {} ]_vars

\* Iron, Copper, then the Ingot and Plate transformers, as in
\* tests::transformations_work: "Iron Plate" and "Iron Ingot" exist.
C5_Witness ==
    /\ last.op = "add_processed_transformer"
    /\ last.ret.ok
    /\ Len(processed_transformations) = 2
    /\ \A name \in {"Iron", "Copper"} :
           \E k \in DOMAIN resources : k < 2 /\ resources[k].name = name
    /\ \A name \in {"Iron Plate", "Iron Ingot", "Copper Plate", "Copper Ingot"} :
           resource_by_name(Manager, name) # {}

\* C6: with every transformer registered before any resource, a successful
\* add_resource leaves every derived name of the candidate stored and the whole
\* catalog closed.
C6_ClosedAfterInsert ==
    (last.op = "add_resource" /\ last.ret.ok)
        => /\ \A i \in DOMAIN processed_transformations :
                  LET d == Apply(processed_transformations[i], last.arg)
                  IN d.some => HasName(Manager, d.val.name)
           /\ Closed(Manager)

\* C7: every add_resource and add_processed_transformer call terminates, also
\* when the transformers re-derive a stored name (Scrap -> Scrap Ingot -> Scrap).
C7_Terminates == Running ~> ~Running

\* A call has ended after the cycle of names closed: "Scrap Ingot" derived from
\* "Scrap", and "Scrap" derived again from "Scrap Ingot".
C7_Witness ==
    /\ ~Running
    /\ last.ret = Err
    /\ HasName(Manager, "Scrap")
    /\ HasName(Manager, "Scrap Ingot")

\* C8: every resource is stored under its own id, below the id counter;
\* resource_by_id finds exactly it; an inserted resource gets an id greater
\* than every id stored before, and the counter never goes back.
C8_IdsIncreaseAndKeyed ==
    [][ /\ \A k \in DOMAIN resources' :
               /\ resources'[k].id = k
               /\ k < resources_created'
               /\ resource_by_id(Manager', k) = {resources'[k]}
        /\ \A k \in (DOMAIN resources') \ (DOMAIN resources) :
               /\ k >= resources_created
               /\ \A j \in DOMAIN resources : j < k
        /\ resources_created' >= resources_created ]_vars

\* Direct and derived insertions have happened and a call has failed.
C8_Witness ==
    /\ ~Running
    /\ last.ret = Err
    /\ Cardinality(DOMAIN resources) >= 4
    /\ HasName(Manager, "Copper Ingot")

\* C9: a stored resource stays stored, under the same id, with the same name
\* and tags, through every step of every later call.
C9_ResourcesNeverChange ==
    [][ \A k \in DOMAIN resources :
            k \in DOMAIN resources' /\ resources'[k] = resources[k] ]_vars

\* "Iron" was inserted first, "Iron Ingot" was derived from it, and a later
\* call has failed: "Iron" is as it was inserted.
C9_Witness ==
    /\ ~Running
    /\ last.ret = Err
    /\ 0 \in DOMAIN resources
    /\ resources[0] = [id |-> 0, name |-> "Iron", tags |-> <<"Metal", "Base">>]
    /\ \E k \in DOMAIN resources :
           resources[k] = [id |-> k, name |-> "Iron Ingot", tags |-> <<"Metal", "Ingot">>]

NameToId(m) == {<<res.name, res.id>> : res \in Values(m)}

\* C10: two managers given the same calls in the same order hold the same
\* resources under the same ids, whatever order each HashMap iterates in.
C10_SameCatalog == NameToId(twin) = NameToId(Manager)

\* C19: a call that returns an error leaves the stored resources and the
\* transformer list as they were before the call.
C19_FailedCallChangesNothing ==
    [][ (last'.op \in {"add_resource", "add_processed_transformer"} /\ ~last'.ret.ok)
            => /\ resources' = resources
               /\ processed_transformations' = processed_transformations ]_vars

\* The id of the stored resource called `name`.
IdOf(name) == CHOOSE k \in DOMAIN resources : resources[k].name = name

\* The registered transformers that derive something from `resource`, by their
\* position in the registration order.
Applicable(resource) ==
    {a \in DOMAIN processed_transformations :
        Apply(processed_transformations[a], resource).some}

ChildName(a, resource) == Apply(processed_transformations[a], resource).val.name

\* The transformers whose derivation the call of frame f has already passed to
\* add_resource: the first ones in registration order.
Taken(f) ==
    LET app == Applicable(resources[f.resource_id])
        n == Cardinality(app) - Len(f.to_add)
    IN {a \in app : Cardinality({b \in app : b <= a}) <= n}

\* Everything derived from a resource with an id in lo..(hi - 1) is stored with an
\* id below hi.
DerivedBelow(lo, hi) ==
    \A k \in DOMAIN resources :
        (lo <= k /\ k < hi) =>
            \A a \in Applicable(resources[k]) :
                /\ HasName(Manager, ChildName(a, resources[k]))
                /\ IdOf(ChildName(a, resources[k])) < hi

\* C18 as stated: a resource derived from a derived resource is inserted only
\* after every resource derived directly from the resource being closed is
\* inserted.
C18_BreadthFirst ==
    [][ (Running /\ resources_created' = resources_created + 1)
            => \A i \in 1..(Len(stack) - 1) :
                   stack[i].fn = "add_resource" => stack[i].to_add = <<>> ]_vars

\* The order the recursion of lines 142-144 does follow is depth-first: the
\* resources derived directly from a resource R get their ids in registration
\* order, the first right after R, and everything derived from one of them is
\* stored, with smaller ids, before the next resource derived directly from R
\* gets its id.
DepthFirstOrder ==
    \A i \in 1..Len(stack) :
        stack[i].fn = "add_resource" =>
            LET R == resources[stack[i].resource_id]
                taken == Taken(stack[i])
            IN /\ \A a \in taken : HasName(Manager, ChildName(a, R))
               /\ \A a \in taken :
                    (\A b \in taken : a <= b) => IdOf(ChildName(a, R)) = R.id + 1
               /\ \A a, b \in taken :
                    a < b => /\ IdOf(ChildName(a, R)) < IdOf(ChildName(b, R))
                             /\ DerivedBelow(IdOf(ChildName(a, R)), IdOf(ChildName(b, R)))

(***************************************************************************)
(* Tag queries, pattern expansion and loading                              *)
(***************************************************************************)
Range(s) == {s[i] : i \in DOMAIN s}

NoRepeat(s) == \A i, j \in DOMAIN s : s[i] = s[j] => i = j

\* The resources of m whose tag set is a superset of tagset.
Superset(m, tagset) == {res \in Values(m) : tagset \subseteq Range(res.tags)}

IsName(value) == value.kind = "String"

\* An object with a "tags" list of recognized tag names.
WellFormedTags(value) ==
    /\ value.kind = "Object"
    /\ value.has_tags
    /\ value.is_array
    /\ \A i \in DOMAIN value.tags : value.tags[i].is_str /\ value.tags[i].str \in ResourceTag

RequestedTags(value) == {value.tags[i].str : i \in DOMAIN value.tags}

\* The selectors of a pattern, inputs first.
Slots(pattern) ==
    [i \in 1..(Len(pattern.input) + Len(pattern.output)) |->
        IF i <= Len(pattern.input) THEN pattern.input[i].resource
        ELSE pattern.output[i - Len(pattern.input)].resource]

\* The candidates a selector stands for: the resource of that name, or the
\* resources carrying every requested tag.
Selected(m, value) ==
    IF IsName(value) THEN resource_by_name(m, value.name)
    ELSE IF WellFormedTags(value) THEN Superset(m, RequestedTags(value))
    ELSE {}

Resolvable(m, value) ==
    \/ IsName(value) /\ HasName(m, value.name)
    \/ WellFormedTags(value)

RECURSIVE Product(_)
Product(counts) == IF counts = <<>> THEN 1 ELSE Head(counts) * Product(Tail(counts))

\* The number of combinations of one candidate per slot.
Combinations(m, pattern) ==
    Product([i \in DOMAIN Slots(pattern) |-> Cardinality(Selected(m, Slots(pattern)[i]))])

\* A load has called into_recipes on the pattern loader.expanding.
Expanded == loader.exists /\ loader.key # ""

StoredUnder(created_recipes, key) == IF key \in DOMAIN created_recipes THEN 1 ELSE 0

Collected_Under(new_recipes, key) ==
    Cardinality({i \in DOMAIN new_recipes : new_recipes[i].key = key})

\* C11: a tag query, and a tag-filter selector resolved by into_recipes, yields
\* exactly the resources whose tag set is a superset of the requested tag set,
\* each once; an empty request yields every resource and a request nothing
\* matches yields the empty list.
C11_TagFilterIsSuperset ==
    /\ query.done =>
        /\ Range(query.result) = Superset(Manager, Range(query.tags))
        /\ NoRepeat(query.result)
    /\ \A i \in DOMAIN loader.inputs_raw :
        LET value == loader.expanding.input[i].resource
        IN WellFormedTags(value) =>
            /\ Range(loader.inputs_raw[i]) = Superset(Manager, RequestedTags(value))
            /\ NoRepeat(loader.inputs_raw[i])

\* A query with a repeated tag on a catalog with a derived metal and a resource
\* without the tag.
C11_Witness ==
    /\ query.done
    /\ query.tags = <<"Metal", "Metal">>
    /\ \E res \in Range(query.result) : res.name = "Iron Ingot"
    /\ HasName(Manager, "Wood")
    /\ \A res \in Range(query.result) : res.name # "Wood"

\* C12: expanding a pattern whose selectors all resolve returns one recipe for
\* each combination of one candidate per input and output slot.
C12_OneRecipePerCombination ==
    (Expanded /\ \A i \in DOMAIN Slots(loader.expanding) :
                    Resolvable(Manager, Slots(loader.expanding)[i]))
        => /\ ~Panicked
           /\ Collected_Under(loader.new_recipes, loader.key)
                = Combinations(Manager, loader.expanding)

\* C13: a pattern one of whose tag filters matches no resource expands normally
\* to no recipe, and the load goes on.
C13_ZeroMatchIsNormal ==
    (/\ Expanded
     /\ Len(loader.inputs_raw) = Len(loader.expanding.input)
     /\ \E i \in DOMAIN loader.inputs_raw :
            /\ WellFormedTags(loader.expanding.input[i].resource)
            /\ loader.inputs_raw[i] = <<>>)
        => /\ ~Panicked
           /\ loader.ret.ok
           /\ Collected_Under(loader.new_recipes, loader.key) = 0

\* C14: a name selector resolves to the one resource of that name; for a name
\* the catalog does not hold, load_recipes returns an error to its caller.
C14_MissingNameIsReturnedError ==
    Expanded =>
        \A i \in DOMAIN loader.expanding.input :
            LET value == loader.expanding.input[i].resource
            IN IsName(value) =>
                /\ i \in DOMAIN loader.inputs_raw =>
                    /\ Len(loader.inputs_raw[i]) = 1
                    /\ loader.inputs_raw[i][1].name = value.name
                /\ (i = Len(loader.inputs_raw) + 1 /\ ~HasName(Manager, value.name)) =>
                    /\ ~Panicked
                    /\ ~loader.ret.ok
                    /\ loader.ret # NotLoaded

\* C15: a selector that is neither a name nor a well-formed tag filter never
\* resolves to resources, and is rejected with an error the caller gets.
C15_InvalidSelectorRejected ==
    Expanded =>
        \A i \in DOMAIN loader.expanding.input :
            LET value == loader.expanding.input[i].resource
            IN (~IsName(value) /\ ~WellFormedTags(value)) =>
                /\ i \notin DOMAIN loader.inputs_raw
                /\ i = Len(loader.inputs_raw) + 1 =>
                    /\ ~Panicked
                    /\ ~loader.ret.ok
                    /\ loader.ret # NotLoaded

C17_LoadLeavesManager ==
    [][ loader' # loader
            => /\ resources' = resources
               /\ processed_transformations' = processed_transformations
               /\ resources_created' = resources_created ]_vars

\* A load on a stocked catalog ended on a selector naming no resource.
C17_Witness ==
    /\ loader.panic = "No resource with name Tin"
    /\ HasName(Manager, "Iron")
    /\ processed_transformations # <<>>

====
